---- MODULE Spec2Model ----
(***************************************************************************)
(* Model of the polymorphic IoT sensor manager: the generic linked list    *)
(* ListaSensor<T>, the sensors SensorTemperatura / SensorPresion, the      *)
(* registry GestorSensores, the line decoder procesarLinea and the line    *)
(* framer leerLineaSerial.                                                 *)
(*                                                                         *)
(* Representation.                                                         *)
(*  - A C string is the sequence of its characters (one-character strings) *)
(*    before the terminating NUL; nullptr returned by strtok is Nulo.      *)
(*  - A ListaSensor<T> is [nodos, tamano]: nodos is the chain of dato      *)
(*    values reachable from cabeza (cabeza == nullptr iff nodos = <<>>),   *)
(*    tamano is the stored counter.                                        *)
(*  - A float reading is held in tenths (45.3 is 453); an int reading is   *)
(*    the integer itself.  A mean is the pair val/den: for int the C       *)
(*    quotient over 1, for float the exact sum over the count.             *)
(*  - salida is what the last operation wrote to std::cout, as events.     *)
(*  - Where the identity of the nodes matters (copy, assignment,          *)
(*    destruction) a ListaSensor<int> is [viva, cabeza, tamano] over       *)
(*    memoria, the heap of Nodo<int> objects: an address never handed out  *)
(*    is "libre", a node made by new is "vivo", a deleted one "liberado".  *)
(*    Addresses are not handed out twice, so a stale pointer is seen.      *)
(*  - retBuscar is what the last direct call of buscarSensor returned    *)
(*    (the position of the sensor, 0 for nullptr); destruido tells that    *)
(*    the registry's destructor has run and liberado lists, in order,      *)
(*    what it deleted.                                                     *)
(*  - escrito is the number of bytes the last sensor constructor wrote     *)
(*    into its nombre array, the terminating NUL included.                 *)
(***************************************************************************)
EXTENDS Integers, Sequences, FiniteSets, TLC

VARIABLES gestor, salida, escrito, retBuscar, destruido, liberado,
          lista, tipoT, retLista,
          bufferInterno, posicion, buffer, lineaLista, leido,
          memoria, objetos, retMemoria

vars == <<gestor, salida, escrito, retBuscar, destruido, liberado,
          lista, tipoT, retLista,
          bufferInterno, posicion, buffer, lineaLista, leido,
          memoria, objetos, retMemoria>>

varsApi == <<retBuscar, destruido, liberado>>
varsGestor == <<gestor, salida, escrito, varsApi>>
varsLista == <<lista, tipoT, retLista>>
varsSerial == <<bufferInterno, posicion, buffer, lineaLista, leido>>
varsMemoria == <<memoria, objetos, retMemoria>>

(***************************************************************************)
(* Bounds of the model.                                                    *)
(***************************************************************************)
\* Readings a sensor's historial holds at most (guard of ProcesarLinea).
MaxLecturas == 3
\* Readings all the sensors hold together at most (guard of ProcesarLinea).
MaxTotalLecturas == 4
\* Sensors the registry holds at most (guard of ProcesarLinea).
MaxSensores == 2
\* Elements of the stand-alone list of SpecLista at most.
MaxLista == 4
\* Bytes the byte source lets a pending line grow to in SpecSerial.
MaxLinea == 3
\* Nodes handed out by new in one behaviour of the node-level list.
MaxNodos == 4

(***************************************************************************)
(* C strings.                                                              *)
(***************************************************************************)
Nulo == <<>>
Delim == ","
Digitos == <<"0", "1", "2", "3", "4", "5", "6", "7", "8", "9">>
EsDigito(c) == \E i \in 1..10 : Digitos[i] = c
ValorDigito(c) == (CHOOSE i \in 1..10 : Digitos[i] = c) - 1

\* strtok: skip the leading delimiters; no character left: nullptr; else the
\* token runs to the next delimiter (overwritten by NUL) or to the end.
RECURSIVE SaltarDelims(_, _)
SaltarDelims(s, p) ==
    IF p <= Len(s) /\ s[p] = Delim THEN SaltarDelims(s, p + 1) ELSE p

RECURSIVE FinToken(_, _)
FinToken(s, p) ==
    IF p <= Len(s) /\ s[p] # Delim THEN FinToken(s, p + 1) ELSE p

Strtok(s, p) ==
    LET ini == SaltarDelims(s, p)
        fin == FinToken(s, ini)
    IN  IF ini > Len(s)
        THEN [tok |-> Nulo, sig |-> ini]
        ELSE [tok |-> SubSeq(s, ini, fin - 1),
              sig |-> IF fin <= Len(s) THEN fin + 1 ELSE fin]

\* The run of decimal digits of s from p, accumulated onto acc.
RECURSIVE LeerDigitos(_, _, _)
LeerDigitos(s, p, acc) ==
    IF p <= Len(s) /\ EsDigito(s[p])
    THEN LeerDigitos(s, p + 1, acc * 10 + ValorDigito(s[p]))
    ELSE [val |-> acc, sig |-> p]

Signo(s) == IF Len(s) >= 1 /\ s[1] = "-" THEN -1 ELSE 1
TrasSigno(s) == IF Len(s) >= 1 /\ s[1] \in {"-", "+"} THEN 2 ELSE 1

\* atoi: optional sign, then digits up to the first non-digit; no digit: 0.
Atoi(s) == Signo(s) * LeerDigitos(s, TrasSigno(s), 0).val

\* atof, in tenths: optional sign, digits, optional '.' and fraction digits
\* (the first one is kept); no number at the start: 0.
Atof(s) ==
    LET ent == LeerDigitos(s, TrasSigno(s), 0)
        p == ent.sig
        dec == IF p + 1 <= Len(s) /\ s[p] = "." /\ EsDigito(s[p + 1])
               THEN ValorDigito(s[p + 1]) ELSE 0
    IN  Signo(s) * (ent.val * 10 + dec)

(***************************************************************************)
(* ListaSensor<T>.                                                         *)
(***************************************************************************)
\* int addition, 32 bits two's complement: a sum out of range wraps around.
IntMax == 2147483647
IntMin == -2147483647 - 1
SumaInt(a, b) ==
    IF b > 0 /\ a > IntMax - b THEN (a - IntMax) + (b - IntMax) - 2
    ELSE IF b < 0 /\ a < IntMin - b THEN (a + IntMax) + (b + IntMax) + 2
    ELSE a + b
\* C integer division truncates toward zero.
DivC(a, b) ==
    IF a >= 0 \/ a % b = 0 THEN a \div b ELSE (a \div b) + 1

ListaVacia == [nodos |-> <<>>, tamano |-> 0]

estaVacia(l) == l.nodos = <<>>
obtenerTamano(l) == l.tamano

insertarAlFinal(l, valor) ==
    [nodos |-> Append(l.nodos, valor), tamano |-> l.tamano + 1]

\* The loop of calcularPromedio: suma += actual->dato over the chain.
RECURSIVE Sumar(_, _, _, _)
Sumar(T, nodos, actual, suma) ==
    IF actual > Len(nodos) THEN suma
    ELSE Sumar(T, nodos, actual + 1,
               IF T = "int" THEN SumaInt(suma, nodos[actual])
               ELSE suma + nodos[actual])

\* Mutant of calcularPromedio: without the test of the empty list, the sum 0
\* is divided by tamaño 0.
calcularPromedio_SinGuarda(T, l) ==
    LET suma == Sumar(T, l.nodos, 1, 0)
    IN  IF T = "int" /\ l.tamano # 0
        THEN [val |-> DivC(suma, l.tamano), den |-> 1, aviso |-> FALSE]
        ELSE [val |-> suma, den |-> l.tamano, aviso |-> FALSE]

\* calcularPromedio: [val, den, aviso]; aviso is the empty-list warning.
calcularPromedio(T, l) ==
    IF l.nodos = <<>>
    THEN [val |-> 0, den |-> 1, aviso |-> TRUE]
    ELSE LET suma == Sumar(T, l.nodos, 1, 0)
         IN  IF T = "int"
             THEN [val |-> DivC(suma, l.tamano), den |-> 1, aviso |-> FALSE]
             ELSE [val |-> suma, den |-> l.tamano, aviso |-> FALSE]

\* Mutant of BuscarMinNodo: the comparison is <=, so the last minimum wins.
RECURSIVE BuscarMinNodo_UltimoMinimo(_, _, _)
BuscarMinNodo_UltimoMinimo(nodos, actual, minNodo) ==
    IF actual > Len(nodos) THEN minNodo
    ELSE BuscarMinNodo_UltimoMinimo(nodos, actual + 1,
             IF nodos[actual] <= nodos[minNodo] THEN actual ELSE minNodo)

\* The scan of eliminarMinimo: minNodo moves only on a strictly smaller dato.
RECURSIVE BuscarMinNodo(_, _, _)
BuscarMinNodo(nodos, actual, minNodo) ==
    IF actual > Len(nodos) THEN minNodo
    ELSE BuscarMinNodo(nodos, actual + 1,
                       IF nodos[actual] < nodos[minNodo] THEN actual ELSE minNodo)

\* Mutant of Desenlazar: anteriorMin->siguiente is set to nullptr, which drops
\* the nodes after the minimum.
Desenlazar_PierdeCola(nodos, k) ==
    IF k = 1 THEN Tail(nodos) ELSE SubSeq(nodos, 1, k - 1)

Desenlazar(nodos, k) == SubSeq(nodos, 1, k - 1) \o SubSeq(nodos, k + 1, Len(nodos))

\* Mutant of eliminarMinimo: the empty list is not told apart, tamano-- runs.
eliminarMinimo_SinGuarda(l) ==
    IF l.nodos = <<>>
    THEN [lista |-> [nodos |-> <<>>, tamano |-> l.tamano - 1],
          valor |-> 0, error |-> FALSE]
    ELSE LET minNodo == BuscarMinNodo(l.nodos, 1, 1)
         IN  [lista |-> [nodos |-> SubSeq(l.nodos, 1, minNodo - 1)
                                   \o SubSeq(l.nodos, minNodo + 1, Len(l.nodos)),
                         tamano |-> l.tamano - 1],
              valor |-> l.nodos[minNodo],
              error |-> FALSE]

\* eliminarMinimo: [lista, valor, error]; error is the empty-list message.
eliminarMinimo(l) ==
    IF l.nodos = <<>>
    THEN [lista |-> l, valor |-> 0, error |-> TRUE]
    ELSE LET minNodo == BuscarMinNodo(l.nodos, 1, 1)
         IN  [lista |-> [nodos |-> Desenlazar(l.nodos, minNodo),
                         tamano |-> l.tamano - 1],
              valor |-> l.nodos[minNodo],
              error |-> FALSE]

(***************************************************************************)
(* ListaSensor<int> at the level of its nodes.                             *)
(***************************************************************************)
Nullptr == 0
Dirs == 1..MaxNodos

NodoLibre == [estado |-> "libre", dato |-> 0, siguiente |-> Nullptr, borrados |-> 0]
MemoriaInicial == [d \in Dirs |-> NodoLibre]
Libres(m) == { d \in Dirs : m[d].estado = "libre" }

\* new Nodo<T>(valor): the address handed out, and the heap with the node
\* constructed there (dato(valor), siguiente(nullptr)).
DirNueva(m) == CHOOSE d \in Libres(m) : \A e \in Libres(m) : d <= e
NuevoNodo(m, valor) ==
    [m EXCEPT ![DirNueva(m)] =
        [@ EXCEPT !.estado = "vivo", !.dato = valor, !.siguiente = Nullptr]]

\* delete p; borrados counts the deletes of the address.
Borrar(m, p) == [m EXCEPT ![p].estado = "liberado", ![p].borrados = @ + 1]

\* ListaSensor(): cabeza(nullptr), tamaño(0).
ObjetoVacio == [viva |-> TRUE, cabeza |-> Nullptr, tamano |-> 0]
ObjetoSinConstruir == [viva |-> FALSE, cabeza |-> Nullptr, tamano |-> 0]

\* estaVacia() and obtenerTamaño() on the object o.
estaVaciaNodos(o) == o.cabeza = Nullptr
obtenerTamanoNodos(o) == o.tamano

\* insertarAlFinal: the loop to the last node.
RECURSIVE UltimoNodo(_, _)
UltimoNodo(m, actual) ==
    IF m[actual].siguiente # Nullptr
    THEN UltimoNodo(m, m[actual].siguiente) ELSE actual

\* Mutant of insertarAlFinalNodos: the new node is linked in front of cabeza.
insertarAlFinalNodos_AlInicio(m, o, valor) ==
    LET nuevoNodo == DirNueva(m)
        m1 == NuevoNodo(m, valor)
    IN  [mem |-> [m1 EXCEPT ![nuevoNodo].siguiente = o.cabeza],
         obj |-> [o EXCEPT !.cabeza = nuevoNodo, !.tamano = @ + 1]]

\* insertarAlFinal(valor) on the object o: [mem, obj].
insertarAlFinalNodos(m, o, valor) ==
    LET nuevoNodo == DirNueva(m)
        m1 == NuevoNodo(m, valor)
    IN  IF o.cabeza = Nullptr
        THEN [mem |-> m1,
              obj |-> [o EXCEPT !.cabeza = nuevoNodo, !.tamano = @ + 1]]
        ELSE [mem |-> [m1 EXCEPT ![UltimoNodo(m1, o.cabeza)].siguiente = nuevoNodo],
              obj |-> [o EXCEPT !.tamano = @ + 1]]

\* The addresses of the chain that starts at actual, following siguiente.
RECURSIVE Cadena(_, _)
Cadena(m, actual) ==
    IF actual = Nullptr THEN <<>>
    ELSE <<actual>> \o Cadena(m, m[actual].siguiente)

\* calcularPromedio: the loop that adds the dato of every node.
RECURSIVE SumarNodos(_, _, _)
SumarNodos(m, actual, suma) ==
    IF actual = Nullptr THEN suma
    ELSE SumarNodos(m, m[actual].siguiente, SumaInt(suma, m[actual].dato))

\* calcularPromedio() on the object o: [val, aviso].
calcularPromedioNodos(m, o) ==
    IF o.cabeza = Nullptr THEN [val |-> 0, aviso |-> TRUE]
    ELSE [val |-> DivC(SumarNodos(m, o.cabeza, 0), o.tamano), aviso |-> FALSE]

\* eliminarMinimo: the loop that finds minNodo and anteriorMin.
RECURSIVE BuscarMinimoNodos(_, _, _, _, _)
BuscarMinimoNodos(m, actual, anterior, minNodo, anteriorMin) ==
    IF actual = Nullptr THEN [minNodo |-> minNodo, anteriorMin |-> anteriorMin]
    ELSE IF m[actual].dato < m[minNodo].dato
         THEN BuscarMinimoNodos(m, m[actual].siguiente, actual, actual, anterior)
         ELSE BuscarMinimoNodos(m, m[actual].siguiente, actual, minNodo, anteriorMin)

\* eliminarMinimo() on the object o: [mem, obj, valor, error].
eliminarMinimoNodos(m, o) ==
    IF o.cabeza = Nullptr
    THEN [mem |-> m, obj |-> o, valor |-> 0, error |-> TRUE]
    ELSE LET b == BuscarMinimoNodos(m, o.cabeza, Nullptr, o.cabeza, Nullptr)
             esCabeza == b.minNodo = o.cabeza
             m1 == IF esCabeza THEN m
                   ELSE [m EXCEPT ![b.anteriorMin].siguiente = m[b.minNodo].siguiente]
         IN  [mem |-> Borrar(m1, b.minNodo),
              obj |-> [o EXCEPT !.cabeza = IF esCabeza THEN m[o.cabeza].siguiente ELSE @,
                                !.tamano = @ - 1],
              valor |-> m[b.minNodo].dato,
              error |-> FALSE]

\* The loop of ~ListaSensor and of operator=: every node from actual on is
\* deleted, its siguiente read before.
RECURSIVE LiberarDesde(_, _)
LiberarDesde(m, actual) ==
    IF actual = Nullptr THEN m
    ELSE LiberarDesde(Borrar(m, actual), m[actual].siguiente)

\* ~ListaSensor() on the object o: [mem, obj].
Destructor(m, o) ==
    [mem |-> LiberarDesde(m, o.cabeza), obj |-> [o EXCEPT !.viva = FALSE]]

\* The loop of the copy constructor and of operator=: insertarAlFinal of the
\* dato of every node of the other list from actual on.
RECURSIVE CopiarDesde(_, _, _)
CopiarDesde(m, o, actual) ==
    IF actual = Nullptr THEN [mem |-> m, obj |-> o]
    ELSE LET r == insertarAlFinalNodos(m, o, m[actual].dato)
         IN  CopiarDesde(r.mem, r.obj, r.mem[actual].siguiente)

\* Mutant of ConstructorCopia: the members are copied, not the nodes.
ConstructorCopia_Superficial(m, otra) ==
    [mem |-> m, obj |-> [ObjetoVacio EXCEPT !.cabeza = otra.cabeza,
                                            !.tamano = otra.tamano]]

\* ListaSensor(const ListaSensor& otra): [mem, obj].
ConstructorCopia(m, otra) == CopiarDesde(m, ObjetoVacio, otra.cabeza)

\* Mutant of operadorAsignacion: without the test this != &otra.
operadorAsignacion_SinComprobarMismo(m, objs, este, otra) ==
    LET m1 == LiberarDesde(m, objs[este].cabeza)
        objs1 == [objs EXCEPT ![este].cabeza = Nullptr, ![este].tamano = 0]
        r == CopiarDesde(m1, objs1[este], objs1[otra].cabeza)
    IN  [mem |-> r.mem, objs |-> [objs1 EXCEPT ![este] = r.obj]]

\* Mutant of operadorAsignacion: without tamaño = 0 after the release.
operadorAsignacion_SinReiniciarTamano(m, objs, este, otra) ==
    IF este # otra
    THEN LET m1 == LiberarDesde(m, objs[este].cabeza)
             objs1 == [objs EXCEPT ![este].cabeza = Nullptr]
             r == CopiarDesde(m1, objs1[este], objs1[otra].cabeza)
         IN  [mem |-> r.mem, objs |-> [objs1 EXCEPT ![este] = r.obj]]
    ELSE [mem |-> m, objs |-> objs]

\* este = otra; on the objects named este and otra: [mem, objs].  The names
\* are equal when this == &otra.
operadorAsignacion(m, objs, este, otra) ==
    IF este # otra
    THEN LET m1 == LiberarDesde(m, objs[este].cabeza)
             objs1 == [objs EXCEPT ![este].cabeza = Nullptr, ![este].tamano = 0]
             r == CopiarDesde(m1, objs1[este], objs1[otra].cabeza)
         IN  [mem |-> r.mem, objs |-> [objs1 EXCEPT ![este] = r.obj]]
    ELSE [mem |-> m, objs |-> objs]

(***************************************************************************)
(* Sensors.                                                                *)
(***************************************************************************)
Temperatura == "SensorTemperatura"
Presion == "SensorPresion"

\* char nombre[50]; of SensorBase.
TamNombre == 50

\* strcpy(nombre, id) writes the characters of id and the terminating NUL.
BytesEscritos(id) == Len(id) + 1

\* What nombre holds, read back as a C string, after strcpy(nombre, id).  An
\* id that fits is stored as it is.  A longer one is written past the end of
\* the array, which is undefined: the bytes past the end stay as written
\* (the whole id is read back) or are overwritten by what is stored behind
\* the array (the name is cut somewhere from TamNombre characters on).
NombresTrasStrcpy(id) ==
    IF BytesEscritos(id) <= TamNombre THEN {id}
    ELSE { SubSeq(id, 1, n) : n \in TamNombre..Len(id) }

\* new SensorTemperatura(id) / new SensorPresion(id): strcpy of the id, and
\* an empty historial.
NuevoSensor(clase, id) ==
    [nombre |-> id, clase |-> clase, historial |-> ListaVacia]

Evento(ev, nombre, val, den, n) ==
    [ev |-> ev, nombre |-> nombre, val |-> val, den |-> den, n |-> n]

\* Mutant of LeerValor: a text that does not start with a number gives the
\* error value -1.
LeerValor_CentinelaError(clase, valor) ==
    IF TrasSigno(valor) <= Len(valor) /\ EsDigito(valor[TrasSigno(valor)])
    THEN IF clase = Temperatura THEN Atof(valor) ELSE Atoi(valor)
    ELSE -1

\* agregarLectura: atof or atoi of the text, then insertarAlFinal.
LeerValor(clase, valor) == IF clase = Temperatura THEN Atof(valor) ELSE Atoi(valor)

agregarLectura(s, valor) ==
    [s EXCEPT !.historial = insertarAlFinal(@, LeerValor(s.clase, valor))]

\* Mutant of procesarLecturaTemperatura: the test is obtenerTamano() > 0.
procesarLecturaTemperatura_SinUmbral(s) ==
    IF estaVacia(s.historial)
    THEN [sensor |-> s, evs |-> <<Evento("sinLecturas", s.nombre, 0, 1, 0)>>]
    ELSE LET r == eliminarMinimo(s.historial)
         IN  [sensor |-> [s EXCEPT !.historial = r.lista],
              evs |-> <<Evento("minimoEliminado", s.nombre, r.valor, 1,
                               obtenerTamano(r.lista))>>]

\* SensorTemperatura::procesarLectura: [sensor, evs].
procesarLecturaTemperatura(s) ==
    IF estaVacia(s.historial)
    THEN [sensor |-> s, evs |-> <<Evento("sinLecturas", s.nombre, 0, 1, 0)>>]
    ELSE IF obtenerTamano(s.historial) > 1
    THEN LET r == eliminarMinimo(s.historial)
         IN  [sensor |-> [s EXCEPT !.historial = r.lista],
              evs |-> <<Evento("minimoEliminado", s.nombre, r.valor, 1,
                               obtenerTamano(r.lista))>>]
    ELSE LET p == calcularPromedio("float", s.historial)
         IN  [sensor |-> s,
              evs |-> <<Evento("promedio", s.nombre, p.val, p.den,
                               obtenerTamano(s.historial))>>]

\* Mutant of procesarLecturaPresion: the readings averaged are discarded.
procesarLecturaPresion_ConsumeLecturas(s) ==
    IF estaVacia(s.historial)
    THEN [sensor |-> s, evs |-> <<Evento("sinLecturas", s.nombre, 0, 1, 0)>>]
    ELSE LET p == calcularPromedio("int", s.historial)
         IN  [sensor |-> [s EXCEPT !.historial = ListaVacia],
              evs |-> <<Evento("promedio", s.nombre, p.val, p.den,
                               obtenerTamano(s.historial))>>]

\* Mutant of procesarLecturaPresion: the minimum is removed before the mean.
procesarLecturaPresion_EliminaMinimo(s) ==
    IF estaVacia(s.historial)
    THEN [sensor |-> s, evs |-> <<Evento("sinLecturas", s.nombre, 0, 1, 0)>>]
    ELSE LET r == eliminarMinimo(s.historial)
             p == calcularPromedio("int", r.lista)
         IN  [sensor |-> [s EXCEPT !.historial = r.lista],
              evs |-> <<Evento("promedio", s.nombre, p.val, p.den,
                               obtenerTamano(r.lista))>>]

\* SensorPresion::procesarLectura: [sensor, evs].
procesarLecturaPresion(s) ==
    IF estaVacia(s.historial)
    THEN [sensor |-> s, evs |-> <<Evento("sinLecturas", s.nombre, 0, 1, 0)>>]
    ELSE LET p == calcularPromedio("int", s.historial)
         IN  [sensor |-> s,
              evs |-> <<Evento("promedio", s.nombre, p.val, p.den,
                               obtenerTamano(s.historial))>>]

\* The virtual call sensor->procesarLectura().
procesarLectura(s) ==
    IF s.clase = Temperatura THEN procesarLecturaTemperatura(s)
    ELSE procesarLecturaPresion(s)

(***************************************************************************)
(* GestorSensores.                                                         *)
(***************************************************************************)
GestorVacio == [sensores |-> <<>>, cantidad |-> 0]

\* Mutant of agregarSensor: a sensor whose name is already held is not
\* inserted.
agregarSensor_SoloNuevos(g, s) ==
    IF \E k \in 1..Len(g.sensores) : g.sensores[k].nombre = s.nombre
    THEN g
    ELSE [sensores |-> Append(g.sensores, s), cantidad |-> g.cantidad + 1]

\* Mutant of agregarSensor: cantidad++ is missing.
agregarSensor_SinContar(g, s) ==
    [sensores |-> Append(g.sensores, s), cantidad |-> g.cantidad]

agregarSensor(g, s) ==
    [sensores |-> Append(g.sensores, s), cantidad |-> g.cantidad + 1]

\* buscarSensor: the position of the first sensor named id, 0 for nullptr.
RECURSIVE BuscarDesde(_, _, _)
BuscarDesde(g, id, actual) ==
    IF actual > Len(g.sensores) THEN 0
    ELSE IF g.sensores[actual].nombre = id THEN actual
    ELSE BuscarDesde(g, id, actual + 1)

\* Mutant of buscarSensor: the scan goes on after a match, the last sensor
\* named id is returned.
buscarSensor_UltimoHallado(g, id) ==
    LET ps == { k \in 1..Len(g.sensores) : g.sensores[k].nombre = id }
    IN  IF ps = {} THEN 0 ELSE CHOOSE k \in ps : \A j \in ps : j <= k

\* Mutant of buscarSensor: the scan starts at cabeza->siguiente.
buscarSensor_SaltaCabeza(g, id) == BuscarDesde(g, id, 2)

buscarSensor(g, id) == BuscarDesde(g, id, 1)

\* Mutant of ProcesarDesde: the loop ends at a sensor without readings.
RECURSIVE ProcesarDesde_ParaEnVacio(_, _, _)
ProcesarDesde_ParaEnVacio(g, actual, evs) ==
    IF actual > Len(g.sensores) THEN [gestor |-> g, evs |-> evs]
    ELSE LET r == procesarLectura(g.sensores[actual])
         IN  IF estaVacia(g.sensores[actual].historial)
             THEN [gestor |-> g, evs |-> evs \o r.evs]
             ELSE ProcesarDesde_ParaEnVacio([g EXCEPT !.sensores[actual] = r.sensor],
                                            actual + 1, evs \o r.evs)

\* The loop of procesarTodos from position actual: [gestor, evs].
RECURSIVE ProcesarDesde(_, _, _)
ProcesarDesde(g, actual, evs) ==
    IF actual > Len(g.sensores) THEN [gestor |-> g, evs |-> evs]
    ELSE LET r == procesarLectura(g.sensores[actual])
         IN  ProcesarDesde([g EXCEPT !.sensores[actual] = r.sensor],
                           actual + 1, evs \o r.evs)

procesarTodos(g) ==
    IF g.sensores = <<>>
    THEN [gestor |-> g, evs |-> <<Evento("sinSensores", Nulo, 0, 1, 0)>>]
    ELSE ProcesarDesde(g, 1, <<>>)

\* imprimirInfo() of a sensor, labelled with the index listarSensores
\* printed before it: the name, the class, obtenerTamaño and the readings of
\* historial.imprimir().
imprimirInfo(s, index) ==
    [ev |-> "info", nombre |-> s.nombre, clase |-> s.clase, index |-> index,
     n |-> obtenerTamano(s.historial), lecturas |-> s.historial.nodos]

\* The loop of listarSensores from position actual, index counted from 1.
RECURSIVE ListarDesde(_, _, _, _)
ListarDesde(g, actual, index, evs) ==
    IF actual > Len(g.sensores) THEN evs
    ELSE ListarDesde(g, actual + 1, index + 1,
                     Append(evs, imprimirInfo(g.sensores[actual], index)))

\* Mutant of listarSensores: index starts at 0.
listarSensores_IndiceDesdeCero(g) ==
    IF g.sensores = <<>>
    THEN <<[ev |-> "sinSensores"]>>
    ELSE ListarDesde(g, 1, 0, <<[ev |-> "total", n |-> g.cantidad]>>)

\* listarSensores(): what it prints.
listarSensores(g) ==
    IF g.sensores = <<>>
    THEN <<[ev |-> "sinSensores"]>>
    ELSE ListarDesde(g, 1, 1, <<[ev |-> "total", n |-> g.cantidad]>>)

\* delete actual->sensor: the destructor of the class, then ~ListaSensor,
\* which deletes the nodes of historial from cabeza on, then ~SensorBase and
\* the release of the sensor itself.
RECURSIVE LiberarLecturas(_, _, _)
LiberarLecturas(s, k, actual) ==
    IF actual > Len(s.historial.nodos) THEN <<>>
    ELSE <<[que |-> "lectura", sensor |-> k, nodo |-> actual]>>
         \o LiberarLecturas(s, k, actual + 1)

BorrarSensor(s, k) ==
    LiberarLecturas(s, k, 1) \o <<[que |-> "sensor", sensor |-> k, nodo |-> 0]>>

\* Mutant of DestruirDesde: delete actual->sensor is missing.
RECURSIVE DestruirDesde_SinBorrarSensor(_, _)
DestruirDesde_SinBorrarSensor(g, actual) ==
    IF actual > Len(g.sensores) THEN <<>>
    ELSE <<[que |-> "nodoSensor", sensor |-> actual, nodo |-> 0]>>
         \o DestruirDesde_SinBorrarSensor(g, actual + 1)

\* The loop of ~GestorSensores from position actual: what is deleted, in
\* order.
RECURSIVE DestruirDesde(_, _)
DestruirDesde(g, actual) ==
    IF actual > Len(g.sensores) THEN <<>>
    ELSE BorrarSensor(g.sensores[actual], actual)
         \o <<[que |-> "nodoSensor", sensor |-> actual, nodo |-> 0]>>
         \o DestruirDesde(g, actual + 1)

(***************************************************************************)
(* procesarLinea.                                                          *)
(***************************************************************************)
\* The class the first character of the tipo token selects, "" for neither.
ClaseDeTipo(tipo) ==
    IF tipo[1] = "T" THEN Temperatura
    ELSE IF tipo[1] = "P" THEN Presion
    ELSE ""

\* procesarLinea(linea, gestor): [gestor, evs].
procesarLinea(linea, g) ==
    LET t1 == Strtok(linea, 1)
        t2 == Strtok(linea, t1.sig)
        t3 == Strtok(linea, t2.sig)
        tipo == t1.tok
        id == t2.tok
        valor == t3.tok
    IN  IF tipo = Nulo \/ id = Nulo \/ valor = Nulo
        THEN [gestor |-> g, evs |-> <<Evento("malformada", Nulo, 0, 1, 0)>>]
        ELSE LET hallado == buscarSensor(g, id)
             IN  IF hallado = 0 /\ ClaseDeTipo(tipo) = ""
                 THEN [gestor |-> g,
                       evs |-> <<Evento("tipoDesconocido", id, 0, 1, 0)>>]
                 ELSE LET g1 == IF hallado = 0
                                THEN agregarSensor(g, NuevoSensor(ClaseDeTipo(tipo), id))
                                ELSE g
                          k == IF hallado = 0 THEN Len(g1.sensores) ELSE hallado
                          s == agregarLectura(g1.sensores[k], valor)
                      IN  [gestor |-> [g1 EXCEPT !.sensores[k] = s],
                           evs |-> (IF hallado = 0
                                    THEN <<Evento("nuevoSensor", id, 0, 1, 0)>>
                                    ELSE <<>>)
                                   \o <<Evento("lecturaAgregada", id,
                                               s.historial.nodos[Len(s.historial.nodos)],
                                               1, obtenerTamano(s.historial))>>]

(***************************************************************************)
(* Inputs: the lines fed to procesarLinea.                                 *)
(***************************************************************************)
Campo3(k, i, v) == k \o <<Delim>> \o i \o <<Delim>> \o v

IdA == <<"A">>
IdB == <<"B">>
IdC == <<"C">>
V453 == <<"4", "5", ".", "3">>
V421 == <<"4", "2", ".", "1">>
V478 == <<"4", "7", ".", "8">>
V1013 == <<"1", "0", "1", "3">>
V1015 == <<"1", "0", "1", "5">>
V1012 == <<"1", "0", "1", "2">>

LineasBuenas ==
    { Campo3(<<"T">>, IdA, v) : v \in {V453, V421, V478} }
    \cup { Campo3(<<"P">>, IdB, v) : v \in {V1013, V1015, V1012} }
    \cup { Campo3(<<"P">>, IdA, V421), Campo3(<<"T">>, IdB, V1015) }

LineasTipoMalo ==
    { Campo3(<<"X">>, IdA, V421), Campo3(<<"X">>, IdC, <<"1", "0">>) }

LineasCamposMalos ==
    { <<>>, <<"T">>, <<"T", Delim, "A">>,
      <<"T", Delim, Delim, "4", "5", ".", "3">>,
      Campo3(<<"T">>, IdA, V453) \o <<Delim, "9">>,
      <<Delim>> \o Campo3(<<"T">>, IdA, V453),
      <<"T", Delim, Delim, "A", Delim, "4", "5", ".", "3">> }

Lineas == LineasBuenas \cup LineasTipoMalo \cup LineasCamposMalos

(***************************************************************************)
(* State machine of the registry: lines decoded, sensors processed.        *)
(***************************************************************************)
SalidaInicial == [op |-> "inicio", arg |-> <<>>, evs |-> <<>>]

RetLista(op, val, den, diag) == [op |-> op, val |-> val, den |-> den, diag |-> diag]

\* GestorSensores gestor; in main.
InitGestor ==
    /\ gestor = GestorVacio
    /\ salida = SalidaInicial
    /\ escrito = 0
    /\ retBuscar = [id |-> Nulo, pos |-> 0]
    /\ destruido = FALSE
    /\ liberado = <<>>

\* ListaSensor<T> lista; of element type T.
InitListaDe(T) ==
    /\ lista = ListaVacia
    /\ tipoT = T
    /\ retLista = RetLista("inicio", 0, 1, FALSE)

\* The statics of leerLineaSerial, and main's buffer.
InitSerial ==
    /\ bufferInterno = <<>>
    /\ posicion = 0
    /\ buffer = <<>>
    /\ lineaLista = FALSE
    /\ leido = [n |-> 0, c |-> "NUL"]

\* ListaSensor<int> A; constructed, B not yet.
InitMemoria ==
    /\ memoria = MemoriaInicial
    /\ objetos = [n \in {"A", "B"} |-> IF n = "A" THEN ObjetoVacio ELSE ObjetoSinConstruir]
    /\ retMemoria = [op |-> "inicio", este |-> "A", otra |-> "A", val |-> 0, diag |-> FALSE]

Init == InitGestor /\ InitListaDe("int") /\ InitSerial /\ InitMemoria

RECURSIVE TotalLecturas(_, _)
TotalLecturas(g, k) ==
    IF k > Len(g.sensores) THEN 0
    ELSE Len(g.sensores[k].historial.nodos) + TotalLecturas(g, k + 1)

DentroDeCotas(g) ==
    /\ Len(g.sensores) <= MaxSensores
    /\ TotalLecturas(g, 1) <= MaxTotalLecturas
    /\ \A k \in 1..Len(g.sensores) :
          Len(g.sensores[k].historial.nodos) <= MaxLecturas

\* main: procesarLinea(buffer, gestor) on a received line.  When the line
\* creates a sensor, the constructor's strcpy decides what its nombre holds.
ProcesarLinea(linea) ==
    LET r == procesarLinea(linea, gestor)
        creado == Len(r.gestor.sensores) > Len(gestor.sensores)
        k == Len(r.gestor.sensores)
    IN  /\ ~destruido
        /\ DentroDeCotas(r.gestor)
        /\ IF creado
           THEN /\ \E nom \in NombresTrasStrcpy(r.gestor.sensores[k].nombre) :
                      gestor' = [r.gestor EXCEPT !.sensores[k].nombre = nom]
                /\ escrito' = BytesEscritos(r.gestor.sensores[k].nombre)
           ELSE /\ gestor' = r.gestor
                /\ escrito' = escrito
        /\ salida' = [op |-> "procesarLinea", arg |-> linea, evs |-> r.evs]
        /\ UNCHANGED <<varsApi, varsLista, varsSerial, varsMemoria>>

\* gestor.buscarSensor(id)->procesarLectura() on the sensor at position k.
ProcesarLectura(k) ==
    LET r == procesarLectura(gestor.sensores[k])
    IN  /\ ~destruido
        /\ gestor' = [gestor EXCEPT !.sensores[k] = r.sensor]
        /\ salida' = [op |-> "procesarLectura", arg |-> <<k>>, evs |-> r.evs]
        /\ UNCHANGED <<escrito, varsApi, varsLista, varsSerial, varsMemoria>>

\* main: gestor.procesarTodos().
ProcesarTodos ==
    LET r == procesarTodos(gestor)
    IN  /\ ~destruido
        /\ gestor' = r.gestor
        /\ salida' = [op |-> "procesarTodos", arg |-> <<>>, evs |-> r.evs]
        /\ UNCHANGED <<escrito, varsApi, varsLista, varsSerial, varsMemoria>>

Next ==
    \/ \E linea \in Lineas : ProcesarLinea(linea)
    \/ \E k \in 1..Len(gestor.sensores) : ProcesarLectura(k)
    \/ ProcesarTodos

Spec == Init /\ [][Next]_vars

(***************************************************************************)
(* State machine of one ListaSensor<T> used on its own.                    *)
(***************************************************************************)
TiposT == {"int", "float"}
ValoresLista == {-1, 0, 1}

InitLista ==
    InitGestor /\ InitSerial /\ InitMemoria /\ \E T \in TiposT : InitListaDe(T)

InsertarAlFinal(valor) ==
    /\ Len(lista.nodos) < MaxLista
    /\ lista' = insertarAlFinal(lista, valor)
    /\ retLista' = RetLista("insertarAlFinal", valor, 1, FALSE)
    /\ UNCHANGED <<tipoT, varsGestor, varsSerial, varsMemoria>>

EliminarMinimo ==
    LET r == eliminarMinimo(lista)
    IN  /\ lista' = r.lista
        /\ retLista' = RetLista("eliminarMinimo", r.valor, 1, r.error)
        /\ UNCHANGED <<tipoT, varsGestor, varsSerial, varsMemoria>>

CalcularPromedio ==
    LET r == calcularPromedio(tipoT, lista)
    IN  /\ retLista' = RetLista("calcularPromedio", r.val, r.den, r.aviso)
        /\ UNCHANGED <<lista, tipoT, varsGestor, varsSerial, varsMemoria>>

NextLista ==
    \/ \E valor \in ValoresLista : InsertarAlFinal(valor)
    \/ EliminarMinimo
    \/ CalcularPromedio

SpecLista == InitLista /\ [][NextLista]_vars

(***************************************************************************)
(* leerLineaSerial.  bufferInterno is the part of the static array that    *)
(* has been written since the last line, positions 0 .. posicion-1: the    *)
(* bytes beyond it are overwritten before they are read.                   *)
(***************************************************************************)
\* The last index of bufferInterno a byte is stored at.
UltimaPosicion == 255
Terminadores == {"LF", "CR"}
Bytes == {"a", ",", "NUL"} \cup Terminadores

\* What strncpy copies from a NUL-terminated array: the bytes before the
\* first NUL.
RECURSIVE CadenaC(_)
CadenaC(bytes) ==
    IF bytes = <<>> \/ Head(bytes) = "NUL" THEN <<>>
    ELSE <<Head(bytes)>> \o CadenaC(Tail(bytes))

\* Mutant of leerLineaSerial: a call that reads no byte drops the pending
\* line.
leerLineaSerial_ReiniciaSinByte(n, c, bi, pos, buf) ==
    LET sinCambio == [bufferInterno |-> bi, posicion |-> pos, buffer |-> buf,
                      ret |-> FALSE]
    IN  IF n > 0
        THEN IF c = "LF" \/ c = "CR"
             THEN IF pos > 0
                  THEN [bufferInterno |-> <<>>, posicion |-> 0,
                        buffer |-> CadenaC(bi \o <<"NUL">>), ret |-> TRUE]
                  ELSE sinCambio
             ELSE IF pos < UltimaPosicion
                  THEN [bufferInterno |-> Append(bi, c), posicion |-> pos + 1,
                        buffer |-> buf, ret |-> FALSE]
                  ELSE sinCambio
        ELSE [bufferInterno |-> <<>>, posicion |-> 0, buffer |-> buf,
              ret |-> FALSE]

\* leerLineaSerial(fd, buffer, maxLen) when read() returns n and the byte c:
\* [bufferInterno, posicion, buffer, ret].
leerLineaSerial(n, c, bi, pos, buf) ==
    LET sinCambio == [bufferInterno |-> bi, posicion |-> pos, buffer |-> buf,
                      ret |-> FALSE]
    IN  IF n > 0
        THEN IF c = "LF" \/ c = "CR"
             THEN IF pos > 0
                  THEN [bufferInterno |-> <<>>, posicion |-> 0,
                        buffer |-> CadenaC(bi \o <<"NUL">>), ret |-> TRUE]
                  ELSE sinCambio
             ELSE IF pos < UltimaPosicion
                  THEN [bufferInterno |-> Append(bi, c), posicion |-> pos + 1,
                        buffer |-> buf, ret |-> FALSE]
                  ELSE sinCambio
        ELSE sinCambio

\* main: one call of leerLineaSerial(serialFd, buffer, 256).  The byte source
\* ends a pending line of MaxLinea bytes.
LeerLineaSerial(n, c) ==
    LET r == leerLineaSerial(n, c, bufferInterno, posicion, buffer)
    IN  /\ n > 0 /\ c \notin Terminadores => posicion < MaxLinea
        /\ bufferInterno' = r.bufferInterno
        /\ posicion' = r.posicion
        /\ buffer' = r.buffer
        /\ lineaLista' = r.ret
        /\ leido' = [n |-> n, c |-> c]
        /\ UNCHANGED <<varsGestor, varsLista, varsMemoria>>

NextSerial == \E n \in {-1, 0, 1}, c \in Bytes : LeerLineaSerial(n, c)

SpecSerial == Init /\ [][NextSerial]_vars

(***************************************************************************)
(* Vocabulary of the properties, defined apart from the operations above.  *)
(***************************************************************************)
Valores(seq) == { seq[i] : i \in 1..Len(seq) }
MinimoDe(seq) == CHOOSE v \in Valores(seq) : \A w \in Valores(seq) : v <= w
PrimeraPosicion(seq, v) ==
    CHOOSE i \in 1..Len(seq) : seq[i] = v /\ \A j \in 1..(i - 1) : seq[j] # v
SinPosicion(seq, k) ==
    [i \in 1..(Len(seq) - 1) |-> IF i < k THEN seq[i] ELSE seq[i + 1]]

RECURSIVE SumaDe(_)
SumaDe(seq) == IF seq = <<>> THEN 0 ELSE Head(seq) + SumaDe(Tail(seq))

\* The fields of a line: the stretches between consecutive delimiters, the
\* empty ones included.
RECURSIVE Campos(_)
Campos(s) ==
    IF \A i \in 1..Len(s) : s[i] # Delim THEN <<s>>
    ELSE LET p == CHOOSE i \in 1..Len(s) :
                      s[i] = Delim /\ \A j \in 1..(i - 1) : s[j] # Delim
         IN  <<SubSeq(s, 1, p - 1)>> \o Campos(SubSeq(s, p + 1, Len(s)))

TresCampos(s) == Len(Campos(s)) = 3 /\ \A i \in 1..3 : Campos(s)[i] # <<>>
TipoReconocido(s) == Campos(s)[1] \in {<<"T">>, <<"P">>}
ClaseDelCampo(s) == IF Campos(s)[1] = <<"T">> THEN Temperatura ELSE Presion

Posiciones(g) == 1..Len(g.sensores)
PosicionesDe(g, id) == { k \in Posiciones(g) : g.sensores[k].nombre = id }
Historial(g, k) == g.sensores[k].historial

\* The sensor at position k as it is after j more calls of procesarLectura.
RECURSIVE TrasProcesar(_, _)
TrasProcesar(s, j) ==
    IF j = 0 THEN s ELSE TrasProcesar(procesarLectura(s).sensor, j - 1)

C3_PresionPromediaSinEliminar ==
    [][\A k \in Posiciones(gestor) :
          ( /\ salida'.op = "procesarLectura"
            /\ salida'.arg = <<k>>
            /\ gestor.sensores[k].clase = Presion
            /\ Historial(gestor, k).nodos # <<>> )
          => LET h == Historial(gestor, k)
             IN  /\ gestor' = gestor
                 /\ Len(salida'.evs) = 1
                 /\ salida'.evs[1].ev = "promedio"
                 /\ salida'.evs[1].den = 1
                 /\ salida'.evs[1].val = DivC(SumaDe(h.nodos), Len(h.nodos))
                 /\ salida'.evs[1].n = Len(h.nodos)
                 /\ h.nodos = <<1013, 1015, 1012>> => salida'.evs[1].val = 1013
      ]_vars

\* The sensor holding 1013, 1015, 1012 has just reported 1013.
C3_Witness ==
    /\ salida.op = "procesarLectura"
    /\ Len(salida.evs) = 1
    /\ salida.evs[1].ev = "promedio"
    /\ salida.evs[1].val = 1013
    /\ salida.evs[1].n = 3
    /\ \E k \in Posiciones(gestor) :
          /\ salida.arg = <<k>>
          /\ gestor.sensores[k].clase = Presion
          /\ Historial(gestor, k).nodos = <<1013, 1015, 1012>>

(***************************************************************************)
(* C4.  Decoding a line with exactly three non-empty fields K,I,V whose    *)
(* kind K is T or P: if no sensor is named I, exactly one sensor of kind K *)
(* named I is appended to the registry (cantidad + 1) and it ends with     *)
(* exactly one reading; if a sensor is named I, cantidad is unchanged and  *)
(* that sensor gains exactly one reading at the end of its list; in both   *)
(* cases every other sensor is unchanged.                                  *)
(***************************************************************************)
C4_LineaDecodificada ==
    [][( /\ salida'.op = "procesarLinea"
         /\ TresCampos(salida'.arg)
         /\ TipoReconocido(salida'.arg) )
       => LET id == Campos(salida'.arg)[2]
              n == Len(gestor.sensores)
          IN  IF PosicionesDe(gestor, id) = {}
              THEN /\ Len(gestor'.sensores) = n + 1
                   /\ gestor'.cantidad = gestor.cantidad + 1
                   /\ SubSeq(gestor'.sensores, 1, n) = gestor.sensores
                   /\ gestor'.sensores[n + 1].nombre = id
                   /\ gestor'.sensores[n + 1].clase = ClaseDelCampo(salida'.arg)
                   /\ Len(Historial(gestor', n + 1).nodos) = 1
                   /\ Historial(gestor', n + 1).tamano = 1
              ELSE LET k == CHOOSE i \in PosicionesDe(gestor, id) :
                                \A j \in PosicionesDe(gestor, id) : i <= j
                   IN  /\ Len(gestor'.sensores) = n
                       /\ gestor'.cantidad = gestor.cantidad
                       /\ \A j \in Posiciones(gestor) \ {k} :
                             gestor'.sensores[j] = gestor.sensores[j]
                       /\ gestor'.sensores[k].nombre = id
                       /\ gestor'.sensores[k].clase = gestor.sensores[k].clase
                       /\ Len(Historial(gestor', k).nodos)
                            = Len(Historial(gestor, k).nodos) + 1
                       /\ SubSeq(Historial(gestor', k).nodos, 1,
                                 Len(Historial(gestor, k).nodos))
                            = Historial(gestor, k).nodos
                       /\ Historial(gestor', k).tamano
                            = Historial(gestor, k).tamano + 1
      ]_vars

\* A line for the first of two sensors has just added a reading to it.
C4_Witness ==
    /\ salida.op = "procesarLinea"
    /\ TresCampos(salida.arg)
    /\ TipoReconocido(salida.arg)
    /\ Len(gestor.sensores) = 2
    /\ gestor.sensores[1].nombre = Campos(salida.arg)[2]
    /\ Historial(gestor, 1).tamano = 2
    /\ Len(salida.evs) = 1
    /\ salida.evs[1].ev = "lecturaAgregada"

(***************************************************************************)
(* C5.  A line whose kind field is neither T nor P is a decode failure     *)
(* that mutates no state, also when a sensor with the line's identifier    *)
(* exists: cantidad, the sensors and every list of readings are unchanged. *)
(* Stated for the lines of three non-empty fields; the others are C6's.    *)
(***************************************************************************)
C5_TipoDesconocidoNoMuta ==
    [][( /\ salida'.op = "procesarLinea"
         /\ TresCampos(salida'.arg)
         /\ ~TipoReconocido(salida'.arg) )
       => /\ gestor' = gestor
          /\ Len(salida'.evs) = 1
          /\ salida'.evs[1].ev = "tipoDesconocido"
      ]_vars

(***************************************************************************)
(* C6.  A line that does not split on the comma into exactly three fields  *)
(* (fewer than three, more than three, or an empty field) is a decode      *)
(* failure: it is discarded, and neither the registry nor any sensor's     *)
(* readings change.                                                        *)
(***************************************************************************)
C6_CamposMalosDescartada ==
    [][( /\ salida'.op = "procesarLinea"
         /\ ~TresCampos(salida'.arg) )
       => /\ gestor' = gestor
          /\ Len(salida'.evs) = 1
          /\ salida'.evs[1].ev = "malformada"
      ]_vars

(***************************************************************************)
(* C9.  Whatever lines procesarLinea has been fed from the empty registry, *)
(* the registry holds at most one sensor per identifier.                   *)
(***************************************************************************)
C9_UnSensorPorIdentificador ==
    \A i, j \in Posiciones(gestor) :
       gestor.sensores[i].nombre = gestor.sensores[j].nombre => i = j

\* Two sensors are held and a line naming the second, already held, was fed.
C9_Witness ==
    /\ Len(gestor.sensores) = 2
    /\ salida.op = "procesarLinea"
    /\ Len(salida.evs) = 1
    /\ salida.evs[1].ev = "lecturaAgregada"
    /\ salida.evs[1].nombre = gestor.sensores[2].nombre
    /\ Historial(gestor, 2).tamano >= 2

(***************************************************************************)
(* C7.  eliminarMinimo on a non-empty list returns the smallest value      *)
(* present, removes exactly one element, the first occurrence of that      *)
(* value in insertion order, decreases tamano by exactly 1 and leaves the  *)
(* other elements in their original relative order.                        *)
(***************************************************************************)
C7_EliminarMinimoPrimeraAparicion ==
    [][(retLista'.op = "eliminarMinimo" /\ lista.nodos # <<>>)
       => LET m == MinimoDe(lista.nodos)
          IN  /\ retLista'.val = m
              /\ retLista'.diag = FALSE
              /\ lista'.nodos = SinPosicion(lista.nodos, PrimeraPosicion(lista.nodos, m))
              /\ Len(lista'.nodos) = Len(lista.nodos) - 1
              /\ lista'.tamano = lista.tamano - 1
      ]_vars

\* A minimum -1 was removed from a list that still holds a later -1.
C7_Witness ==
    /\ retLista.op = "eliminarMinimo"
    /\ retLista.val = -1
    /\ lista.nodos = <<1, 0, -1>>

(***************************************************************************)
(* C8 as claimed.  eliminarMinimo on an empty list returns an "empty"      *)
(* signal that differs from every value eliminarMinimo returns for a       *)
(* non-empty list (a stored reading of zero included), and leaves the list *)
(* empty with tamano 0.                                                    *)
(***************************************************************************)
C8_SenalVaciaDistinguible ==
    [][retLista'.op = "eliminarMinimo"
       => IF lista.nodos = <<>>
          THEN lista'.nodos = <<>> /\ lista'.tamano = 0
          ELSE retLista'.val # eliminarMinimo(ListaVacia).valor
      ]_vars

(***************************************************************************)
(* C8 as amended.  eliminarMinimo on an empty list returns the zero value  *)
(* of T, the value it also returns when it removes a stored zero, prints   *)
(* the error message, which no call on a non-empty list prints, and leaves *)
(* the list empty with tamano 0.                                           *)
(***************************************************************************)
C8_VaciaDevuelveCeroConError ==
    [][retLista'.op = "eliminarMinimo"
       => IF lista.nodos = <<>>
          THEN /\ retLista'.val = 0
               /\ retLista'.diag = TRUE
               /\ lista'.nodos = <<>>
               /\ lista'.tamano = 0
          ELSE retLista'.diag = FALSE
      ]_vars

\* eliminarMinimo has just been called on the empty list.
C8_Witness ==
    /\ retLista.op = "eliminarMinimo"
    /\ retLista.diag = TRUE
    /\ lista.nodos = <<>>

(***************************************************************************)
(* C10.  In leerLineaSerial a terminator byte (LF or CR) read while the    *)
(* pending buffer is not empty emits exactly the accumulated bytes as one  *)
(* line and resets the buffer to empty; a terminator read while the buffer *)
(* is empty emits nothing and changes nothing.  So no empty line is ever   *)
(* emitted and no emitted line holds a terminator byte.                    *)
(***************************************************************************)
C10_TerminadorEmiteLoAcumulado ==
    [][(leido'.n > 0 /\ leido'.c \in Terminadores)
       => IF posicion > 0
          THEN /\ lineaLista' = TRUE
               /\ buffer' = bufferInterno
               /\ buffer' # <<>>
               /\ \A i \in 1..Len(buffer') : buffer'[i] \notin Terminadores
               /\ posicion' = 0
               /\ bufferInterno' = <<>>
          ELSE /\ lineaLista' = FALSE
               /\ UNCHANGED <<bufferInterno, posicion, buffer>>
      ]_vars

(***************************************************************************)
(* C11.  The pending buffer of leerLineaSerial never holds more than 255   *)
(* bytes: the write position stays within 0..255, a non-terminator byte    *)
(* that arrives when the buffer is full is dropped without changing the    *)
(* buffer, a non-terminator byte that arrives before that is stored at the *)
(* end, and the emitted line is exactly the bytes stored since the         *)
(* previous emission, in arrival order.                                    *)
(***************************************************************************)
C11_BufferAcotadoYLineaExacta ==
    [][/\ posicion' \in 0..UltimaPosicion
       /\ Len(bufferInterno') <= UltimaPosicion
       /\ (leido'.n > 0 /\ leido'.c \notin Terminadores)
          => IF posicion < UltimaPosicion
             THEN /\ bufferInterno' = Append(bufferInterno, leido'.c)
                  /\ posicion' = posicion + 1
             ELSE UNCHANGED <<bufferInterno, posicion, buffer>>
       /\ lineaLista' => buffer' = bufferInterno
      ]_vars

(***************************************************************************)
(* State machine of the decoder fed with lines whose VALUE is not a number *)
(* of the kind, or whose KIND is longer than one character.                *)
(***************************************************************************)
VAbc == <<"a", "b", "c">>
V4x == <<"4", "x">>

LineasValorMalo ==
    { Campo3(<<"T">>, IdA, v) : v \in {VAbc, V4x, V453} }
    \cup { Campo3(<<"P">>, IdB, v) : v \in {VAbc, V453, V1013} }

LineasTipoLargo ==
    { Campo3(<<"T", "E", "M", "P">>, IdA, V453),
      Campo3(<<"P", "x">>, IdB, V1013) }

LineasRaras == LineasValorMalo \cup LineasTipoLargo

NextEntradas == \E linea \in LineasRaras : ProcesarLinea(linea)

SpecEntradas == Init /\ [][NextEntradas]_vars

(***************************************************************************)
(* Vocabulary of the properties about the VALUE field.                     *)
(***************************************************************************)
Cifras == {"0", "1", "2", "3", "4", "5", "6", "7", "8", "9"}
SinSigno(s) == IF s # <<>> /\ Head(s) \in {"+", "-"} THEN Tail(s) ELSE s
SoloCifras(s) == s # <<>> /\ \A i \in 1..Len(s) : s[i] \in Cifras

\* An integer literal: an optional sign and one digit or more.
EsLiteralEntero(s) == SoloCifras(SinSigno(s))

\* A decimal literal: an optional sign and digits with at most one point,
\* one digit at least.
EsLiteralDecimal(s) ==
    LET r == SinSigno(s)
    IN  \/ SoloCifras(r)
        \/ \E p \in 1..Len(r) :
              /\ r[p] = "."
              /\ Len(r) > 1
              /\ \A i \in 1..Len(r) : i # p => r[i] \in Cifras

EsLiteralDe(clase, s) ==
    IF clase = Temperatura THEN EsLiteralDecimal(s) ELSE EsLiteralEntero(s)

\* The number of leading digits of s.
CifrasAlInicio(s) ==
    CHOOSE n \in 0..Len(s) :
        /\ \A i \in 1..n : s[i] \in Cifras
        /\ n < Len(s) => s[n + 1] \notin Cifras

RECURSIVE ValorCifras(_)
ValorCifras(d) ==
    IF d = <<>> THEN 0
    ELSE 10 * ValorCifras(SubSeq(d, 1, Len(d) - 1))
         + (CHOOSE v \in 0..9 : Digitos[v + 1] = d[Len(d)])

\* The number a text begins with, as a reading of the class stores it (an
\* integer, or tenths), and whether it begins with one at all.
NumeroInicial(clase, s) ==
    LET r == SinSigno(s)
        n == CifrasAlInicio(r)
        ent == ValorCifras(SubSeq(r, 1, n))
        sgn == IF s # <<>> /\ Head(s) = "-" THEN -1 ELSE 1
        dec == IF clase = Temperatura /\ Len(r) >= n + 2 /\ r[n + 1] = "."
                  /\ r[n + 2] \in Cifras
               THEN ValorCifras(<<r[n + 2]>>) ELSE 0
    IN  IF clase = Temperatura THEN sgn * (10 * ent + dec) ELSE sgn * ent

EmpiezaPorNumero(clase, s) ==
    LET r == SinSigno(s)
    IN  \/ r # <<>> /\ Head(r) \in Cifras
        \/ clase = Temperatura /\ Len(r) >= 2 /\ r[1] = "." /\ r[2] \in Cifras

\* The position of the sensor a step of procesarLinea appended a reading
\* to: the only one whose historial grew.
Crecidos(g, h) ==
    { k \in Posiciones(h) :
        IF k \in Posiciones(g)
        THEN Historial(h, k) # Historial(g, k)
        ELSE Historial(h, k).nodos # <<>> }

UltimaLectura(h, k) == Historial(h, k).nodos[Len(Historial(h, k).nodos)]

\* A step of procesarLinea appended exactly one reading, to the sensor at
\* position k, and changed no other reading.
UnaLecturaMas(g, h, k) ==
    /\ Crecidos(g, h) = {k}
    /\ Len(h.sensores) \in {Len(g.sensores), Len(g.sensores) + 1}
    /\ LET antes == IF k \in Posiciones(g) THEN Historial(g, k).nodos ELSE <<>>
       IN  /\ Len(Historial(h, k).nodos) = Len(antes) + 1
           /\ SubSeq(Historial(h, k).nodos, 1, Len(antes)) = antes
           /\ Historial(h, k).tamano = Len(antes) + 1

(***************************************************************************)
(* C12 as stated.  A well-formed line whose VALUE is not a numeric literal *)
(* of the sensor's kind (a decimal number for temperature, an integer for  *)
(* pressure) is not rejected and appends exactly one reading of value 0.   *)
(***************************************************************************)
C12_ValorNoNumericoDaCero ==
    [][(salida'.op = "procesarLinea" /\ TresCampos(salida'.arg)
        /\ TipoReconocido(salida'.arg))
       => \E k \in Posiciones(gestor') :
             /\ UnaLecturaMas(gestor, gestor', k)
             /\ ~EsLiteralDe(gestor'.sensores[k].clase, Campos(salida'.arg)[3])
                => UltimaLectura(gestor', k) = 0
      ]_vars

(***************************************************************************)
(* C12, amended.  A well-formed line is never rejected for its VALUE and   *)
(* appends exactly one reading: the number the VALUE begins with, read as  *)
(* the sensor's kind reads it, and zero when the VALUE does not begin with *)
(* a number.                                                               *)
(***************************************************************************)
C12_ValorLeidoPorPrefijo ==
    [][(salida'.op = "procesarLinea" /\ TresCampos(salida'.arg)
        /\ TipoReconocido(salida'.arg))
       => \E k \in Posiciones(gestor') :
             LET clase == gestor'.sensores[k].clase
                 valor == Campos(salida'.arg)[3]
             IN  /\ UnaLecturaMas(gestor, gestor', k)
                 /\ gestor'.sensores[k].nombre = Campos(salida'.arg)[2]
                 /\ \A i \in 1..Len(salida'.evs) :
                       salida'.evs[i].ev \in {"nuevoSensor", "lecturaAgregada"}
                 /\ UltimaLectura(gestor', k) =
                       IF EmpiezaPorNumero(clase, valor)
                       THEN NumeroInicial(clase, valor) ELSE 0
      ]_vars

\* T,A,abc arrived after another reading of A and stored the reading 0.
C12_Witness ==
    /\ salida.op = "procesarLinea"
    /\ salida.arg = Campo3(<<"T">>, IdA, VAbc)
    /\ \E k \in Posiciones(gestor) :
          /\ gestor.sensores[k].nombre = IdA
          /\ Len(Historial(gestor, k).nodos) >= 2
          /\ UltimaLectura(gestor, k) = 0
          /\ Historial(gestor, k).nodos[1] # 0

(***************************************************************************)
(* C13.  procesarLinea accepts a line only if its kind field is exactly    *)
(* the one-character string T or exactly the one-character string P: a     *)
(* step that creates a sensor or appends a reading was given such a line,  *)
(* and a line with any other kind field, a longer one that starts with T   *)
(* or P included, leaves the registry as it was and reports the failure.   *)
(***************************************************************************)
C13_TipoExactamenteTOP ==
    [][salida'.op = "procesarLinea"
       => /\ gestor' # gestor => Campos(salida'.arg)[1] \in {<<"T">>, <<"P">>}
          /\ Campos(salida'.arg)[1] \notin {<<"T">>, <<"P">>}
             => /\ gestor'.cantidad = gestor.cantidad
                /\ Crecidos(gestor, gestor') = {}
                /\ \E i \in 1..Len(salida'.evs) :
                      salida'.evs[i].ev \in {"tipoDesconocido", "malformada"}
      ]_vars

(***************************************************************************)
(* C14.  The KIND of an accepted line determines how its VALUE is parsed   *)
(* and where it is stored: a line of KIND T appends its value, read as a   *)
(* decimal number, to a temperature sensor, and a line of KIND P appends   *)
(* its value, read as an integer, to a pressure sensor, also when the      *)
(* line's identifier names an existing sensor of the other kind.           *)
(***************************************************************************)
C14_TipoDeterminaLaLectura ==
    [][(salida'.op = "procesarLinea" /\ TresCampos(salida'.arg)
        /\ TipoReconocido(salida'.arg))
       => \E k \in Posiciones(gestor') :
             /\ UnaLecturaMas(gestor, gestor', k)
             /\ gestor'.sensores[k].clase = ClaseDelCampo(salida'.arg)
             /\ UltimaLectura(gestor', k) =
                   NumeroInicial(ClaseDelCampo(salida'.arg),
                                 Campos(salida'.arg)[3])
      ]_vars

(***************************************************************************)
(* State machine of the decoder fed with lines whose identifier is short,  *)
(* as long as nombre can hold, or longer.                                  *)
(***************************************************************************)
\* The longest identifier fed.
MaxId == 51

IdDe(n) == [i \in 1..n |-> "a"]
LargosId == {1, TamNombre - 1, TamNombre, MaxId}

LineasIdLargo ==
    { Campo3(<<"T">>, IdDe(n), v) : n \in LargosId, v \in {<<"1">>, <<"2">>} }

NextNombre == \E linea \in LineasIdLargo : ProcesarLinea(linea)

SpecNombre == Init /\ [][NextNombre]_vars

(***************************************************************************)
(* C15.  For every identifier token procesarLinea accepts, the sensor it   *)
(* creates stores the identifier verbatim: the constructor's write stays   *)
(* inside the 50 bytes of nombre, the name read back is the token, and a   *)
(* find with the same token returns that sensor.                           *)
(***************************************************************************)
C15_NombreGuardadoTalCual ==
    [][(salida'.op = "procesarLinea"
        /\ Len(gestor'.sensores) > Len(gestor.sensores))
       => LET id == Campos(salida'.arg)[2]
              k == Len(gestor'.sensores)
          IN  /\ escrito' <= TamNombre
              /\ gestor'.sensores[k].nombre = id
              /\ PosicionesDe(gestor', id) = {k}
      ]_vars

(***************************************************************************)
(* State machine of two ListaSensor<int> objects, A and B, over one heap:  *)
(* A is constructed empty, B is copy-constructed from A and destroyed, and *)
(* either is appended to, reduced, averaged and assigned from the other or *)
(* from itself.                                                            *)
(***************************************************************************)
Objs == {"A", "B"}
ValoresNodo == {0, 1}

RetMemoria(op, este, otra, val, diag) ==
    [op |-> op, este |-> este, otra |-> otra, val |-> val, diag |-> diag]

HayMemoriaPara(n) == Cardinality(Libres(memoria)) >= n

InsertarNodo(n, valor) ==
    /\ objetos[n].viva
    /\ HayMemoriaPara(1)
    /\ LET r == insertarAlFinalNodos(memoria, objetos[n], valor)
       IN  /\ memoria' = r.mem
           /\ objetos' = [objetos EXCEPT ![n] = r.obj]
    /\ retMemoria' = RetMemoria("insertarAlFinal", n, n, valor, FALSE)
    /\ UNCHANGED <<varsGestor, varsLista, varsSerial>>

EliminarMinimoNodo(n) ==
    /\ objetos[n].viva
    /\ LET r == eliminarMinimoNodos(memoria, objetos[n])
       IN  /\ memoria' = r.mem
           /\ objetos' = [objetos EXCEPT ![n] = r.obj]
           /\ retMemoria' = RetMemoria("eliminarMinimo", n, n, r.valor, r.error)
    /\ UNCHANGED <<varsGestor, varsLista, varsSerial>>

CalcularPromedioNodo(n) ==
    /\ objetos[n].viva
    /\ LET r == calcularPromedioNodos(memoria, objetos[n])
       IN  retMemoria' = RetMemoria("calcularPromedio", n, n, r.val, r.aviso)
    /\ UNCHANGED <<memoria, objetos, varsGestor, varsLista, varsSerial>>

\* ListaSensor<int> B(A);
CopiarObjeto ==
    /\ objetos["A"].viva /\ ~objetos["B"].viva
    /\ HayMemoriaPara(Len(Cadena(memoria, objetos["A"].cabeza)))
    /\ LET r == ConstructorCopia(memoria, objetos["A"])
       IN  /\ memoria' = r.mem
           /\ objetos' = [objetos EXCEPT !["B"] = r.obj]
    /\ retMemoria' = RetMemoria("copia", "B", "A", 0, FALSE)
    /\ UNCHANGED <<varsGestor, varsLista, varsSerial>>

\* este = otra;
AsignarObjeto(este, otra) ==
    /\ objetos[este].viva /\ objetos[otra].viva
    /\ este # otra => HayMemoriaPara(Len(Cadena(memoria, objetos[otra].cabeza)))
    /\ LET r == operadorAsignacion(memoria, objetos, este, otra)
       IN  /\ memoria' = r.mem
           /\ objetos' = r.objs
    /\ retMemoria' = RetMemoria("asignacion", este, otra, 0, FALSE)
    /\ UNCHANGED <<varsGestor, varsLista, varsSerial>>

\* B goes out of scope.
DestruirObjeto ==
    /\ objetos["B"].viva
    /\ LET r == Destructor(memoria, objetos["B"])
       IN  /\ memoria' = r.mem
           /\ objetos' = [objetos EXCEPT !["B"] = r.obj]
    /\ retMemoria' = RetMemoria("destructor", "B", "B", 0, FALSE)
    /\ UNCHANGED <<varsGestor, varsLista, varsSerial>>

NextMemoria ==
    \/ \E n \in Objs, valor \in ValoresNodo : InsertarNodo(n, valor)
    \/ \E n \in Objs : EliminarMinimoNodo(n)
    \/ \E n \in Objs : CalcularPromedioNodo(n)
    \/ CopiarObjeto
    \/ \E este \in Objs, otra \in Objs : AsignarObjeto(este, otra)
    \/ DestruirObjeto

SpecMemoria == Init /\ [][NextMemoria]_vars

(***************************************************************************)
(* Vocabulary of the properties about nodes.                               *)
(***************************************************************************)
\* The nodes reachable from the head of an object, and their values.
Alcanzables(m, o) == { Cadena(m, o.cabeza)[i] : i \in 1..Len(Cadena(m, o.cabeza)) }
Contenido(m, o) ==
    [i \in 1..Len(Cadena(m, o.cabeza)) |-> m[Cadena(m, o.cabeza)[i]].dato]
Vivas(objs) == { n \in Objs : objs[n].viva }
LaOtra(n) == IF n = "A" THEN "B" ELSE "A"

(***************************************************************************)
(* C16.  insertarAlFinal(v) always succeeds: it increases the size by      *)
(* exactly 1, places v as the last element, and leaves the elements stored *)
(* before unchanged and in the same order (the same nodes, in the same     *)
(* order, with the same values).                                           *)
(***************************************************************************)
C16_InsertarAlFinalAgregaAlFinal ==
    [][retMemoria'.op = "insertarAlFinal"
       => LET n == retMemoria'.este
              antes == Cadena(memoria, objetos[n].cabeza)
              despues == Cadena(memoria', objetos'[n].cabeza)
          IN  /\ objetos'[n].tamano = objetos[n].tamano + 1
              /\ Len(despues) = Len(antes) + 1
              /\ SubSeq(despues, 1, Len(antes)) = antes
              /\ Contenido(memoria', objetos'[n])
                    = Append(Contenido(memoria, objetos[n]), retMemoria'.val)
              /\ memoria'[despues[Len(despues)]].estado = "vivo"
              /\ retMemoria'.diag = FALSE
      ]_vars

\* 1 was appended to a list that held 1, 0.
C16_Witness ==
    /\ retMemoria.op = "insertarAlFinal"
    /\ retMemoria.val = 1
    /\ Contenido(memoria, objetos[retMemoria.este]) = <<1, 0, 1>>

(***************************************************************************)
(* C17.  calcularPromedio on an empty list returns the zero value of T     *)
(* without failing (no division takes place; the warning is printed), and  *)
(* calcularPromedio in any state, empty or not, leaves the elements and    *)
(* the size of the list unchanged.                                         *)
(***************************************************************************)
C17_PromedioVacioCeroSinMutar ==
    [][retLista'.op = "calcularPromedio"
       => /\ lista' = lista
          /\ lista.nodos = <<>>
             => /\ retLista'.val = 0
                /\ retLista'.den = 1
                /\ retLista'.diag = TRUE
          /\ lista.nodos # <<>> => retLista'.den # 0 /\ retLista'.diag = FALSE
      ]_vars

\* The mean of an empty ListaSensor<float> was asked for.
C17_Witness ==
    /\ retLista.op = "calcularPromedio"
    /\ tipoT = "float"
    /\ lista = ListaVacia
    /\ retLista.val = 0
    /\ retLista.diag = TRUE

(***************************************************************************)
(* C18.  Copy-constructing B from A gives B the same elements in the same  *)
(* order and the same size, in nodes of its own: A and B share no node,    *)
(* the copy leaves A as it was, and any later insertarAlFinal or           *)
(* eliminarMinimo on one of them leaves the elements, the size and the     *)
(* nodes of the other unchanged.                                           *)
(***************************************************************************)
C18_CopiaIndependiente ==
    [][/\ retMemoria'.op = "copia"
          => /\ objetos'["B"].viva
             /\ Contenido(memoria', objetos'["B"]) = Contenido(memoria, objetos["A"])
             /\ objetos'["B"].tamano = objetos["A"].tamano
             /\ objetos'["A"] = objetos["A"]
             /\ Cadena(memoria', objetos'["A"].cabeza) = Cadena(memoria, objetos["A"].cabeza)
             /\ Contenido(memoria', objetos'["A"]) = Contenido(memoria, objetos["A"])
             /\ \A d \in Alcanzables(memoria', objetos'["B"]) :
                   memoria[d].estado = "libre" /\ memoria'[d].estado = "vivo"
       /\ (Vivas(objetos') = Objs)
          => Alcanzables(memoria', objetos'["A"])
               \cap Alcanzables(memoria', objetos'["B"]) = {}
       /\ (retMemoria'.op \in {"insertarAlFinal", "eliminarMinimo"}
           /\ Vivas(objetos) = Objs)
          => LET otra == LaOtra(retMemoria'.este)
             IN  /\ objetos'[otra] = objetos[otra]
                 /\ Cadena(memoria', objetos'[otra].cabeza)
                       = Cadena(memoria, objetos[otra].cabeza)
                 /\ Contenido(memoria', objetos'[otra])
                       = Contenido(memoria, objetos[otra])
                 /\ \A d \in Alcanzables(memoria, objetos[otra]) :
                       memoria'[d] = memoria[d]
      ]_vars

\* B was copied from A when A held 1, 0; then the minimum was removed from A:
\* B still holds 1, 0 in live nodes.
C18_Witness ==
    /\ retMemoria.op = "eliminarMinimo"
    /\ retMemoria.este = "A"
    /\ Vivas(objetos) = Objs
    /\ Contenido(memoria, objetos["A"]) = <<1>>
    /\ Contenido(memoria, objetos["B"]) = <<1, 0>>
    /\ \A d \in Alcanzables(memoria, objetos["B"]) : memoria[d].estado = "vivo"

(***************************************************************************)
(* C19.  An assignment este = otra between two distinct lists releases     *)
(* every node este held, each exactly once, and makes este a copy of otra  *)
(* in newly allocated nodes, with otra's elements, order and size; otra,   *)
(* its nodes included, is unchanged.  A self-assignment changes nothing    *)
(* and releases nothing.  No node is ever released twice, no live list     *)
(* reaches a released node, and no node is shared between two live lists.  *)
(***************************************************************************)
C19_AsignacionLiberaYCopia ==
    [][/\ (retMemoria'.op = "asignacion" /\ retMemoria'.este # retMemoria'.otra)
          => LET este == retMemoria'.este
                 otra == retMemoria'.otra
             IN  /\ \A d \in Alcanzables(memoria, objetos[este]) :
                       /\ memoria'[d].estado = "liberado"
                       /\ memoria'[d].borrados = memoria[d].borrados + 1
                 /\ \A d \in Dirs \ Alcanzables(memoria, objetos[este]) :
                       memoria'[d].borrados = memoria[d].borrados
                 /\ Contenido(memoria', objetos'[este]) = Contenido(memoria, objetos[otra])
                 /\ objetos'[este].tamano = objetos[otra].tamano
                 /\ \A d \in Alcanzables(memoria', objetos'[este]) :
                       memoria[d].estado = "libre" /\ memoria'[d].estado = "vivo"
                 /\ objetos'[otra] = objetos[otra]
                 /\ Cadena(memoria', objetos'[otra].cabeza)
                       = Cadena(memoria, objetos[otra].cabeza)
                 /\ \A d \in Alcanzables(memoria, objetos[otra]) :
                       memoria'[d] = memoria[d]
       /\ (retMemoria'.op = "asignacion" /\ retMemoria'.este = retMemoria'.otra)
          => memoria' = memoria /\ objetos' = objetos
       /\ \A d \in Dirs : memoria'[d].borrados <= 1
       /\ \A n \in Vivas(objetos') :
             \A d \in Alcanzables(memoria', objetos'[n]) : memoria'[d].estado = "vivo"
       /\ \A n \in Vivas(objetos'), k \in Vivas(objetos') :
             n # k => Alcanzables(memoria', objetos'[n])
                        \cap Alcanzables(memoria', objetos'[k]) = {}
      ]_vars

\* B = A; when A held 0 and B held 1: the node B held is released, once, and
\* B holds 0 in a node of its own.
C19_Witness ==
    /\ retMemoria.op = "asignacion"
    /\ retMemoria.este = "B" /\ retMemoria.otra = "A"
    /\ Contenido(memoria, objetos["A"]) = <<0>>
    /\ Contenido(memoria, objetos["B"]) = <<0>>
    /\ objetos["A"].cabeza # objetos["B"].cabeza
    /\ Cardinality({ d \in Dirs : /\ memoria[d].estado = "liberado"
                                  /\ memoria[d].dato = 1
                                  /\ memoria[d].borrados = 1 }) = 2

(***************************************************************************)
(* C20.  In every state reached through insertarAlFinal, eliminarMinimo,   *)
(* calcularPromedio, copy construction and assignment (and destruction of  *)
(* the copy), the stored count tamaño of a list equals the number of nodes *)
(* reachable from its cabeza, and estaVacia, which tests cabeza, is true   *)
(* exactly when obtenerTamaño is 0.                                        *)
(***************************************************************************)
C20_TamanoCuentaLosNodos ==
    \A n \in Vivas(objetos) :
        /\ obtenerTamanoNodos(objetos[n]) = Len(Cadena(memoria, objetos[n].cabeza))
        /\ estaVaciaNodos(objetos[n]) <=> (obtenerTamanoNodos(objetos[n]) = 0)

\* B = A; when A was empty and B had held two elements: B is empty with
\* tamaño 0.
C20_Witness ==
    /\ retMemoria.op = "asignacion"
    /\ retMemoria.este = "B" /\ retMemoria.otra = "A"
    /\ estaVaciaNodos(objetos["A"]) /\ estaVaciaNodos(objetos["B"])
    /\ obtenerTamanoNodos(objetos["B"]) = 0
    /\ Cardinality({ d \in Dirs : memoria[d].estado = "liberado" }) = 4

(***************************************************************************)
(* State machine of the registry used through its own operations: sensors  *)
(* are inserted directly (no uniqueness check), looked up, given readings  *)
(* by decoded lines, processed, listed, and the registry is destroyed.     *)
(***************************************************************************)
ClasesSensor == {Temperatura, Presion}
IdsGestor == {IdA, IdB}
IdsBuscados == {IdA, IdB, IdC}
LineasGestor ==
    { Campo3(<<"T">>, IdA, V453), Campo3(<<"P">>, IdB, V1013) }

\* gestor.agregarSensor(new SensorTemperatura(id)) or (new SensorPresion(id)).
AgregarSensor(clase, id) ==
    LET g == agregarSensor(gestor, NuevoSensor(clase, id))
        k == Len(g.sensores)
    IN  /\ ~destruido
        /\ DentroDeCotas(g)
        /\ \E nom \in NombresTrasStrcpy(id) :
              gestor' = [g EXCEPT !.sensores[k].nombre = nom]
        /\ escrito' = BytesEscritos(id)
        /\ salida' = [op |-> "agregarSensor", arg |-> id, evs |-> <<>>]
        /\ UNCHANGED <<varsApi, varsLista, varsSerial, varsMemoria>>

\* gestor.buscarSensor(id).
BuscarSensor(id) ==
    /\ ~destruido
    /\ retBuscar' = [id |-> id, pos |-> buscarSensor(gestor, id)]
    /\ salida' = [op |-> "buscarSensor", arg |-> id, evs |-> <<>>]
    /\ UNCHANGED <<gestor, escrito, destruido, liberado,
                   varsLista, varsSerial, varsMemoria>>

\* gestor.listarSensores().
ListarSensores ==
    /\ ~destruido
    /\ salida' = [op |-> "listarSensores", arg |-> <<>>,
                  evs |-> listarSensores(gestor)]
    /\ UNCHANGED <<gestor, escrito, varsApi, varsLista, varsSerial, varsMemoria>>

\* gestor goes out of scope at the end of main: ~GestorSensores().
DestruirGestor ==
    /\ ~destruido
    /\ destruido' = TRUE
    /\ liberado' = DestruirDesde(gestor, 1)
    /\ salida' = [op |-> "destructor", arg |-> <<>>, evs |-> <<>>]
    /\ UNCHANGED <<gestor, escrito, retBuscar, varsLista, varsSerial, varsMemoria>>

NextGestor ==
    \/ \E clase \in ClasesSensor, id \in IdsGestor : AgregarSensor(clase, id)
    \/ \E id \in IdsBuscados : BuscarSensor(id)
    \/ \E linea \in LineasGestor : ProcesarLinea(linea)
    \/ ProcesarTodos
    \/ ListarSensores
    \/ DestruirGestor

SpecGestor == Init /\ [][NextGestor]_vars

(***************************************************************************)
(* C21.  buscarSensor(id) returns the earliest-inserted sensor whose       *)
(* identifier equals id exactly, returns nullptr exactly when no held      *)
(* sensor has that identifier, and never modifies the registry.            *)
(***************************************************************************)
C21_BuscarDevuelveElPrimero ==
    [][salida'.op = "buscarSensor"
       => LET id == salida'.arg
              ps == PosicionesDe(gestor, id)
          IN  /\ gestor' = gestor
              /\ retBuscar'.id = id
              /\ (retBuscar'.pos = 0) <=> (ps = {})
              /\ ps # {} => /\ retBuscar'.pos \in ps
                            /\ \A k \in ps : retBuscar'.pos <= k
      ]_vars

\* Two sensors named A are held and the find of A returned the first one.
C21_Witness ==
    /\ salida.op = "buscarSensor"
    /\ salida.arg = IdA
    /\ PosicionesDe(gestor, IdA) = {1, 2}
    /\ retBuscar = [id |-> IdA, pos |-> 1]

(***************************************************************************)
(* C22.  agregarSensor appends the sensor at the end of the collection,    *)
(* increases cantidad by exactly 1 and keeps the sensors already held in   *)
(* their positions; it checks no uniqueness, so a sensor whose identifier  *)
(* is already present is inserted as well.  In every reachable state       *)
(* obtenerCantidad equals the number of sensors held.                      *)
(***************************************************************************)
C22_AgregarAlFinalSinUnicidad ==
    [][/\ gestor'.cantidad = Len(gestor'.sensores)
       /\ salida'.op = "agregarSensor"
          => /\ Len(gestor'.sensores) = Len(gestor.sensores) + 1
             /\ gestor'.cantidad = gestor.cantidad + 1
             /\ SubSeq(gestor'.sensores, 1, Len(gestor.sensores)) = gestor.sensores
             /\ gestor'.sensores[Len(gestor'.sensores)].nombre = salida'.arg
             /\ gestor'.sensores[Len(gestor'.sensores)].historial = ListaVacia
      ]_vars

\* A second sensor named A, of the other class, was inserted after the first.
C22_Witness ==
    /\ salida.op = "agregarSensor"
    /\ salida.arg = IdA
    /\ gestor.cantidad = 2
    /\ PosicionesDe(gestor, IdA) = {1, 2}
    /\ gestor.sensores[1].clase # gestor.sensores[2].clase

\* What procesarLectura prints for the sensors of g from position k on, one
\* call each, in order.
RECURSIVE SalidaDeCadaUno(_, _)
SalidaDeCadaUno(g, k) ==
    IF k > Len(g.sensores) THEN <<>>
    ELSE procesarLectura(g.sensores[k]).evs \o SalidaDeCadaUno(g, k + 1)

(***************************************************************************)
(* C23.  procesarTodos on a non-empty registry calls procesarLectura       *)
(* exactly once on every held sensor, in insertion order, without          *)
(* short-circuit: a sensor that is empty or gives a degraded result does   *)
(* not keep the sensors after it from being processed.  On an empty        *)
(* registry it processes nothing and changes nothing.                      *)
(***************************************************************************)
C23_ProcesarTodosUnaVezCadaUno ==
    [][salida'.op = "procesarTodos"
       => IF gestor.sensores = <<>>
          THEN /\ gestor' = gestor
               /\ Len(salida'.evs) = 1
               /\ salida'.evs[1].ev = "sinSensores"
          ELSE /\ Len(gestor'.sensores) = Len(gestor.sensores)
               /\ gestor'.cantidad = gestor.cantidad
               /\ \A k \in Posiciones(gestor) :
                     gestor'.sensores[k] = TrasProcesar(gestor.sensores[k], 1)
               /\ salida'.evs = SalidaDeCadaUno(gestor, 1)
      ]_vars

\* The first sensor had no reading and the second one, with two readings,
\* was processed after it.
C23_Witness ==
    /\ salida.op = "procesarTodos"
    /\ Len(gestor.sensores) = 2
    /\ Len(salida.evs) = 2
    /\ salida.evs[1].ev = "sinLecturas"
    /\ salida.evs[2].ev = "minimoEliminado"
    /\ Historial(gestor, 1) = ListaVacia
    /\ Len(Historial(gestor, 2).nodos) = 1

\* How many times the record r is in the log of deletions.
Veces(log, r) == Cardinality({ i \in 1..Len(log) : log[i] = r })
LugarDe(log, r) == CHOOSE i \in 1..Len(log) : log[i] = r
RegSensor(k) == [que |-> "sensor", sensor |-> k, nodo |-> 0]
RegNodoSensor(k) == [que |-> "nodoSensor", sensor |-> k, nodo |-> 0]
RegLectura(k, i) == [que |-> "lectura", sensor |-> k, nodo |-> i]

(***************************************************************************)
(* C24.  The destructor of the registry, from any reachable state,         *)
(* releases every sensor held exactly once, in insertion order, with every *)
(* node of the sensor's list of readings exactly once before it, and every *)
(* node of the registry exactly once; nothing else is released, so after   *)
(* it nothing remains allocated and nothing was released twice.            *)
(***************************************************************************)
C24_DestructorLiberaTodoUnaVez ==
    [][salida'.op = "destructor"
       => /\ destruido'
          /\ \A k \in Posiciones(gestor) :
                /\ Veces(liberado', RegSensor(k)) = 1
                /\ Veces(liberado', RegNodoSensor(k)) = 1
                /\ LugarDe(liberado', RegSensor(k)) < LugarDe(liberado', RegNodoSensor(k))
                /\ \A i \in 1..Len(Historial(gestor, k).nodos) :
                      /\ Veces(liberado', RegLectura(k, i)) = 1
                      /\ LugarDe(liberado', RegLectura(k, i))
                            < LugarDe(liberado', RegSensor(k))
                /\ \A j \in 1..(k - 1) :
                      /\ LugarDe(liberado', RegSensor(j))
                            < LugarDe(liberado', RegSensor(k))
                      /\ \A i \in 1..Len(Historial(gestor, k).nodos) :
                            LugarDe(liberado', RegNodoSensor(j))
                               < LugarDe(liberado', RegLectura(k, i))
          /\ Len(liberado') = 2 * Len(gestor.sensores) + TotalLecturas(gestor, 1)
      ]_vars

\* A registry of two sensors, with three readings between them, was
\* destroyed.
C24_Witness ==
    /\ destruido
    /\ Len(gestor.sensores) = 2
    /\ Historial(gestor, 1).nodos # <<>>
    /\ Historial(gestor, 2).nodos # <<>>
    /\ Len(liberado) = 7

(***************************************************************************)
(* C25.  No input is fatal: after any sequence of decoded lines the system *)
(* is in a well-defined state, nothing having been written outside the     *)
(* object it belongs to, with the registry and every list of readings      *)
(* consistent, so that every operation can still run and complete.         *)
(***************************************************************************)
C25_NingunaEntradaEsFatal ==
    /\ escrito <= TamNombre
    /\ gestor.cantidad = Len(gestor.sensores)
    /\ \A k \in Posiciones(gestor) :
          /\ Historial(gestor, k).tamano = Len(Historial(gestor, k).nodos)
          /\ Len(gestor.sensores[k].nombre) < TamNombre
          /\ gestor.sensores[k].clase \in ClasesSensor

(***************************************************************************)
(* C26.  imprimirInfo and listarSensores are read-only: they leave the     *)
(* registry, every sensor's identifier and every list of readings          *)
(* unchanged; listarSensores reports the count and then visits the sensors *)
(* in insertion order with the position labels 1, 2, ..., cantidad, each   *)
(* described by its identifier, kind, number of readings and readings.     *)
(***************************************************************************)
C26_ListarSoloLee ==
    [][salida'.op = "listarSensores"
       => /\ gestor' = gestor
          /\ IF gestor.sensores = <<>>
             THEN salida'.evs = <<[ev |-> "sinSensores"]>>
             ELSE /\ Len(salida'.evs) = 1 + gestor.cantidad
                  /\ salida'.evs[1] = [ev |-> "total", n |-> Len(gestor.sensores)]
                  /\ \A k \in Posiciones(gestor) :
                        LET e == salida'.evs[k + 1]
                        IN  /\ e.ev = "info"
                            /\ e.index = k
                            /\ e.nombre = gestor.sensores[k].nombre
                            /\ e.clase = gestor.sensores[k].clase
                            /\ e.n = Len(Historial(gestor, k).nodos)
                            /\ e.lecturas = Historial(gestor, k).nodos
      ]_vars

\* Two sensors, the second with two readings, were listed with the labels
\* 1 and 2.
C26_Witness ==
    /\ salida.op = "listarSensores"
    /\ Len(gestor.sensores) = 2
    /\ Len(salida.evs) = 3
    /\ salida.evs[2].index = 1
    /\ salida.evs[3].index = 2
    /\ Len(salida.evs[3].lecturas) = 2

(***************************************************************************)
(* C27.  As the comments of the source say, one call of procesarLectura on *)
(* a temperature sensor that has readings removes the lowest reading and   *)
(* then calculates and shows the mean of the remaining readings, in that   *)
(* same call.  Stated for sensors with two readings or more, where some    *)
(* reading remains.                                                        *)
(***************************************************************************)
C27_EliminaYPromediaEnUnaLlamada ==
    [][(/\ salida'.op = "procesarLectura"
        /\ gestor.sensores[salida'.arg[1]].clase = Temperatura
        /\ Len(Historial(gestor, salida'.arg[1]).nodos) >= 2)
       => LET k == salida'.arg[1]
              antes == Historial(gestor, k).nodos
              despues == Historial(gestor', k).nodos
          IN  /\ despues = SinPosicion(antes, PrimeraPosicion(antes, MinimoDe(antes)))
              /\ \E i \in 1..Len(salida'.evs) :
                    /\ salida'.evs[i].ev = "promedio"
                    /\ salida'.evs[i].val = SumaDe(despues)
                    /\ salida'.evs[i].den = Len(despues)
      ]_vars

(***************************************************************************)
(* C28.  Between construction and teardown the registry only grows by      *)
(* appending: in every step of line decoding, insert, find, procesarTodos  *)
(* and listarSensores cantidad does not decrease and every sensor already  *)
(* held keeps its position, identifier and kind; the number of readings of *)
(* a pressure sensor never decreases, and that of a temperature sensor     *)
(* decreases only through procesarLectura.                                 *)
(***************************************************************************)
C28_ElRegistroSoloCrece ==
    [][/\ gestor'.cantidad >= gestor.cantidad
       /\ Len(gestor'.sensores) >= Len(gestor.sensores)
       /\ \A k \in Posiciones(gestor) :
             /\ gestor'.sensores[k].nombre = gestor.sensores[k].nombre
             /\ gestor'.sensores[k].clase = gestor.sensores[k].clase
             /\ gestor.sensores[k].clase = Presion
                => /\ Len(Historial(gestor', k).nodos) >= Len(Historial(gestor, k).nodos)
                   /\ Historial(gestor', k).tamano >= Historial(gestor, k).tamano
             /\ Len(Historial(gestor', k).nodos) < Len(Historial(gestor, k).nodos)
                => /\ gestor.sensores[k].clase = Temperatura
                   /\ salida'.op \in {"procesarTodos", "procesarLectura"}
                   /\ Len(Historial(gestor', k).nodos) = Len(Historial(gestor, k).nodos) - 1
      ]_vars

\* procesarTodos took one reading from the temperature sensor and left the
\* two readings of the pressure sensor.
C28_Witness ==
    /\ salida.op = "procesarTodos"
    /\ \E k \in Posiciones(gestor), j \in Posiciones(gestor) :
          /\ gestor.sensores[k].clase = Temperatura
          /\ gestor.sensores[j].clase = Presion
          /\ Len(Historial(gestor, j).nodos) = 2
          /\ Len(Historial(gestor, k).nodos) = 1
          /\ \E i \in 1..Len(salida.evs) :
                /\ salida.evs[i].ev = "minimoEliminado"
                /\ salida.evs[i].nombre = gestor.sensores[k].nombre

(***************************************************************************)
(* Pressure readings at the ends of the int range.  `suma += actual->dato`  *)
(* with T = int is a signed addition; when it leaves the int range the      *)
(* behaviour is undefined, and the outcomes modelled are the two a build    *)
(* produces: the two's-complement wrap of the plain addition instruction    *)
(* and, in a build with trapping arithmetic, termination of the program.    *)
(***************************************************************************)
LecturasGrandes == {IntMin, -1, 1, IntMax}

\* TRUE when a + b leaves the int range.
DesbordaInt(a, b) ==
    \/ b > 0 /\ a > IntMax - b
    \/ b < 0 /\ a < IntMin - b

\* TRUE when some addition of the loop of calcularPromedio overflows.
RECURSIVE DesbordaSuma(_, _, _)
DesbordaSuma(nodos, actual, suma) ==
    /\ actual <= Len(nodos)
    /\ \/ DesbordaInt(suma, nodos[actual])
       \/ DesbordaSuma(nodos, actual + 1, SumaInt(suma, nodos[actual]))

\* Outcomes of calcularPromedio on a list of int.
ResultadosPromedioInt(l) ==
    LET r == calcularPromedio("int", l)
    IN  {RetLista("calcularPromedio", r.val, r.den, r.aviso)}
        \cup (IF DesbordaSuma(l.nodos, 1, 0)
              THEN {RetLista("abortado", 0, 1, FALSE)}
              ELSE {})

InsertarLecturaPresion(valor) ==
    /\ retLista.op # "abortado"
    /\ InsertarAlFinal(valor)

CalcularPromedioPresion ==
    /\ retLista.op # "abortado"
    /\ retLista' \in ResultadosPromedioInt(lista)
    /\ UNCHANGED <<lista, tipoT, varsGestor, varsSerial, varsMemoria>>

NextPresion ==
    \/ \E valor \in LecturasGrandes : InsertarLecturaPresion(valor)
    \/ CalcularPromedioPresion

SpecPresion == Init /\ [][NextPresion]_vars

\* The exact sum of the readings in two limbs, x = alto * 65536 + bajo with
\* 0 <= bajo < 65536, so that no intermediate value leaves 32 bits.
RECURSIVE SumaAlta(_, _)
SumaAlta(nodos, actual) ==
    IF actual > Len(nodos) THEN 0
    ELSE (nodos[actual] \div 65536) + SumaAlta(nodos, actual + 1)

RECURSIVE SumaBaja(_, _)
SumaBaja(nodos, actual) ==
    IF actual > Len(nodos) THEN 0
    ELSE (nodos[actual] % 65536) + SumaBaja(nodos, actual + 1)

\* The exact sum of a non-empty sequence divided by its length, truncated
\* toward zero.
PromedioExacto(nodos) ==
    LET n     == Len(nodos)
        alto  == SumaAlta(nodos, 1)
        resto == (alto % n) * 65536 + SumaBaja(nodos, 1)
        piso  == (alto \div n) * 65536 + (resto \div n)
    IN  IF piso < 0 /\ resto % n # 0 THEN piso + 1 ELSE piso

(***************************************************************************)
(* C29.  For every sequence of int pressure readings calcularPromedio      *)
(* returns the exact sum of the readings divided by their number,          *)
(* truncated toward zero: the running sum never leaves the int range.      *)
(***************************************************************************)
C29_PromedioEnteroExacto ==
    /\ retLista.op # "abortado"
    /\ retLista.op = "calcularPromedio" /\ lista.nodos # <<>>
       => /\ retLista.den = 1
          /\ retLista.val = PromedioExacto(lista.nodos)

(***************************************************************************)
(* C30.  A call of leerLineaSerial in which read() delivers no byte        *)
(* (returns 0 or an error) reports no line and leaves bufferInterno,       *)
(* posicion and the caller's buffer unchanged, so a partial line survives  *)
(* any number of such calls.  Every call stores at most one byte, and a    *)
(* line is reported only by the call that reads a terminator.              *)
(***************************************************************************)
C30_SinByteNoCambiaNada ==
    [][/\ leido'.n <= 0
          => /\ lineaLista' = FALSE
             /\ UNCHANGED <<bufferInterno, posicion, buffer>>
       /\ posicion' <= posicion + 1
       /\ Len(bufferInterno') <= Len(bufferInterno) + 1
       /\ posicion' = posicion + 1
          => /\ leido'.n > 0
             /\ bufferInterno' = Append(bufferInterno, leido'.c)
       /\ lineaLista'
          => /\ leido'.n > 0
             /\ leido'.c \in Terminadores
             /\ posicion > 0
      ]_vars

\* Two bytes of a line are pending and the last call read no byte.
C30_Witness ==
    /\ leido.n <= 0
    /\ ~lineaLista
    /\ posicion = 2
    /\ Len(bufferInterno) = 2

====
